---------------------------- MODULE Spec2Model ----------------------------
(***************************************************************************)
(* Model of MessagePassingRPC/rpc_server.py: a ServerImpl that owns a      *)
(* bound REP socket, and a Reactor whose event loop polls the registered   *)
(* sockets, receives one request, decodes it with str.split (" "), makes   *)
(* the upcall on the registered impl and sends one reply.                  *)
(*                                                                         *)
(* Strings are sequences of one-character strings, so that split and the   *)
(* comparison of tokens are computed character by character.               *)
(***************************************************************************)
EXTENDS Integers, Sequences, FiniteSets, TLC

VARIABLES
    pc,        \* where the single thread of main is
    cur,       \* the ServerImpl object main is setting up
    port,      \* ServerImpl.port of every impl (None: not instantiated)
    socket,    \* ServerImpl.socket of every impl (None before bind)
    taken,     \* the ports other processes hold
    bound,     \* the port every socket is bound to (empty: not bound)
    bindError, \* TRUE once a socket.bind has raised
    exitCode,  \* None while the process runs, else its exit status
    impl,      \* Reactor.impl
    poller,    \* the sockets registered with Reactor.poller
    events,    \* event_loop's local: the sockets poll reported readable
    str,       \* handle_message's local: the message received
    parts,     \* handle_message's local: str.split (" ")
    ret,       \* the string handle_message is about to send
    fsm,       \* every REP socket's state: "recv" (may receive) or "send" (must reply)
    inbox,     \* every socket's queue of requests that arrived and were not received
    client,    \* the peer of every socket: "idle" or "waiting" for its reply
    requests,  \* history: the requests received, [sock, msg], in order
    replies,   \* history: the replies sent, [sock, msg], in order
    upcalls    \* history: the upcalls made, [req, impl, op, args, result], in order

vars == <<pc, cur, port, socket, taken, bound, bindError, exitCode, impl, poller, events,
          str, parts, ret, fsm, inbox, client, requests, replies, upcalls>>

None == "None"

-----------------------------------------------------------------------------
(* Bounds of the model *)

\* the number of requests the peers send in a run
MaxRequests == 2
\* the number of tokens that follow the first token of a request
MaxArgs == 2

-----------------------------------------------------------------------------
(* Strings *)

SP == " "
GET == <<"G", "E", "T">>
PUT == <<"P", "U", "T">>
\* what ServerImpl.put returns
ACK == <<"A", "C", "K">>
\* what handle_message sends after a PUT
AckReply == <<"a", "c", "k">>
\* what handle_message sends in its else branch
Unrecognized == <<"S", "o", "r", "r", "y", ",", " ", "u", "n", "r", "e", "c", "o",
                  "g", "n", "i", "z", "e", "d", " ", "c", "o", "m", "m", "a", "n", "d">>

\* the position of the first space of s, 0 when it has none
RECURSIVE FirstSpace(_, _)
FirstSpace(s, i) ==
    IF i > Len(s) THEN 0
    ELSE IF s[i] = SP THEN i
    ELSE FirstSpace(s, i + 1)

\* Python's s.split (" "): cut at every single space; empty tokens are kept,
\* and the empty string gives one empty token
RECURSIVE Split(_)
Split(s) ==
    LET i == FirstSpace(s, 1)
    IN  IF i = 0 THEN <<s>>
        ELSE <<SubSeq(s, 1, i - 1)>> \o Split(SubSeq(s, i + 1, Len(s)))

\* the tokens of a request written with one space between them (what a peer does)
RECURSIVE Join(_)
Join(toks) ==
    IF Len(toks) = 1 THEN toks[1]
    ELSE toks[1] \o <<SP>> \o Join(Tail(toks))

-----------------------------------------------------------------------------
(* The inputs *)

Impls == {"h1", "h2"}
Sockets == {"s1", "s2"}

\* the default of --port
DefaultPort == <<"5", "5", "5", "7">>
OtherPort == <<"5", "5", "5", "8">>
InvalidPort == <<"x">>

\* first tokens: the two verbs, a lowercase verb, and the empty token (the
\* empty message, or a message that starts with a space)
Verbs == {GET, PUT, <<"g", "e", "t">>, <<>>}
\* the key and the value of a request
Args == {<<"k">>, <<"v">>}
\* a token that follows the value
Extra == {<<"w">>}

ArgLists ==
    UNION {{a \in [1..n -> Args \cup Extra] :
               \A i \in 1..n : IF i <= 2 THEN a[i] \in Args ELSE a[i] \in Extra} :
           n \in 0..MaxArgs}
Messages == {Join(<<v>> \o a) : v \in Verbs, a \in ArgLists}

ValidPorts == {DefaultPort, OtherPort}

-----------------------------------------------------------------------------
(* ServerImpl *)

\* context.socket (zmq.REP): every impl gets a socket object of its own
NewSocket(h) == IF h = "h1" THEN "s1" ELSE "s2"

\* the ports a bind would find in use
InUse == taken \cup {bound[s] : s \in {x \in Sockets : bound[x] # <<>>}}

\* socket.bind ("tcp://*:" + port) raises when the port is invalid or in use
BindRaises(p) == p \notin ValidPorts \/ p \in InUse

\* a bug: get looks the key up and returns the value of the last put of it
get_LastPut(key) ==
    LET puts == {u \in 1..Len(upcalls) : upcalls[u].op = "put" /\ upcalls[u].args[1] = key}
    IN  IF puts = {} THEN key
        ELSE upcalls[CHOOSE u \in puts : \A v \in puts : v <= u].args[2]

\* ServerImpl.get: returns what it got
get(key) == key

\* a bug: put returns the value it was given
put_Echo(key, value) == value

\* ServerImpl.put: returns a dummy ACK
put(key, value) == ACK

-----------------------------------------------------------------------------
(* Reactor.handle_message: the tokens it reads *)

\* a bug: the verb is compared without regard to case
Upper(c) == IF c = "g" THEN "G" ELSE IF c = "e" THEN "E" ELSE IF c = "t" THEN "T" ELSE c
Verb_AnyCase(p) == [i \in 1..Len(p[1]) |-> Upper(p[1][i])]

\* parts[0]
Verb(p) == p[1]
\* parts[1], which raises IndexError when the message has one token
HasKey(p) == Len(p) >= 2
\* a bug: the index is off by one and the verb is taken for the key
Key_OffByOne(p) == p[1]
Key(p) == p[2]
\* parts[2], which raises IndexError when the message has fewer than three tokens
HasValue(p) == Len(p) >= 3
\* a bug: the index is off by one and the key is passed as the value
Value_OffByOne(p) == p[2]
Value(p) == p[3]

\* a bug: what put returned is forwarded
PutReply_Forwarded(r) == r

\* the string sent after the upcall of put: the literal, not what put returned
PutReply(r) == AckReply

-----------------------------------------------------------------------------
(* The state after main has constructed the Reactor and the ServerImpl *)

Init ==
    /\ pc = "bind"
    /\ cur = "h1"
    /\ \E p \in {DefaultPort, InvalidPort} : port = [h \in Impls |-> IF h = "h1" THEN p ELSE <<>>]
    /\ socket = [h \in Impls |-> None]
    /\ taken \in {{}, {DefaultPort}}
    /\ bound = [s \in Sockets |-> <<>>]
    /\ bindError = FALSE
    /\ exitCode = None
    /\ impl = None
    /\ poller = {}
    /\ events = {}
    /\ str = <<>>
    /\ parts = <<>>
    /\ ret = <<>>
    /\ fsm = [s \in Sockets |-> "recv"]
    /\ inbox = [s \in Sockets |-> <<>>]
    /\ client = [s \in Sockets |-> "idle"]
    /\ requests = <<>>
    /\ replies = <<>>
    /\ upcalls = <<>>

\* an exception nobody catches: the traceback, and exit status 1
Raise ==
    /\ pc' = "exited"
    /\ exitCode' = "1"

-----------------------------------------------------------------------------
(* main *)

\* a bug: the failure of bind is swallowed and main goes on
Bind_Swallowed ==
    /\ pc = "bind"
    /\ socket' = [socket EXCEPT ![cur] = NewSocket(cur)]
    /\ bindError' = (bindError \/ BindRaises(port[cur]))
    /\ bound' = IF BindRaises(port[cur]) THEN bound
                ELSE [bound EXCEPT ![NewSocket(cur)] = port[cur]]
    /\ pc' = "register"
    /\ UNCHANGED <<cur, port, taken, exitCode, impl, poller, events, str, parts, ret,
                   fsm, inbox, client, requests, replies, upcalls>>

\* impl.bind (reactor.context): the socket is created, then bound
Bind ==
    /\ pc = "bind"
    /\ socket' = [socket EXCEPT ![cur] = NewSocket(cur)]
    /\ IF BindRaises(port[cur])
       THEN /\ bindError' = TRUE
            /\ Raise
            /\ UNCHANGED bound
       ELSE /\ bound' = [bound EXCEPT ![NewSocket(cur)] = port[cur]]
            /\ pc' = "register"
            /\ UNCHANGED <<bindError, exitCode>>
    /\ UNCHANGED <<cur, port, taken, impl, poller, events, str, parts, ret, fsm,
                   inbox, client, requests, replies, upcalls>>

\* a bug: a second registration does not replace the impl
Register_KeepFirst ==
    /\ pc = "register"
    /\ impl' = IF impl = None THEN cur ELSE impl
    /\ poller' = poller \cup {socket[cur]}
    /\ pc' = "registered"
    /\ UNCHANGED <<cur, port, socket, taken, bound, bindError, exitCode, events, str,
                   parts, ret, fsm, inbox, client, requests, replies, upcalls>>

\* reactor.register (impl)
Register ==
    /\ pc = "register"
    /\ impl' = cur
    /\ poller' = poller \cup {socket[cur]}
    /\ pc' = "registered"
    /\ UNCHANGED <<cur, port, socket, taken, bound, bindError, exitCode, events, str,
                   parts, ret, fsm, inbox, client, requests, replies, upcalls>>

\* reactor.event_loop (): entered, never left
StartEventLoop ==
    /\ pc = "registered"
    /\ pc' = "wait"
    /\ UNCHANGED <<cur, port, socket, taken, bound, bindError, exitCode, impl, poller,
                   events, str, parts, ret, fsm, inbox, client, requests, replies, upcalls>>

\* a caller that, unlike main, sets up a second ServerImpl before the event loop
SecondImpl ==
    /\ pc = "registered"
    /\ cur = "h1"
    /\ cur' = "h2"
    /\ \E p \in {DefaultPort, OtherPort, InvalidPort} : port' = [port EXCEPT !["h2"] = p]
    /\ pc' = "bind"
    /\ UNCHANGED <<socket, taken, bound, bindError, exitCode, impl, poller, events, str,
                   parts, ret, fsm, inbox, client, requests, replies, upcalls>>

-----------------------------------------------------------------------------
(* Reactor.event_loop *)

\* what poll reports: the registered sockets with a request to receive
Readable == {s \in poller : inbox[s] # <<>> /\ fsm[s] = "recv"}

\* events = dict (self.poller.poll ()): blocks until a registered socket is readable
Poll ==
    /\ pc = "wait"
    /\ Readable # {}
    /\ events' = Readable
    /\ pc' = "polled"
    /\ UNCHANGED <<cur, port, socket, taken, bound, bindError, exitCode, impl, poller,
                   str, parts, ret, fsm, inbox, client, requests, replies, upcalls>>

\* a bug: any event is taken for an event on the impl's socket
Dispatch_AnyEvent ==
    /\ pc = "polled"
    /\ pc' = IF events # {} THEN "recv" ELSE "wait"
    /\ UNCHANGED <<cur, port, socket, taken, bound, bindError, exitCode, impl, poller,
                   events, str, parts, ret, fsm, inbox, client, requests, replies, upcalls>>

\* if (self.impl.socket in events): handle the message, else ignore the event
Dispatch ==
    /\ pc = "polled"
    /\ pc' = IF socket[impl] \in events THEN "recv" ELSE "wait"
    /\ UNCHANGED <<cur, port, socket, taken, bound, bindError, exitCode, impl, poller,
                   events, str, parts, ret, fsm, inbox, client, requests, replies, upcalls>>

-----------------------------------------------------------------------------
(* Reactor.handle_message (self.impl.socket) *)

\* socket.recv_string (), which a REP socket refuses before the reply to the
\* previous request was sent, and str.split (" ")
Recv ==
    /\ pc = "recv"
    /\ LET s == socket[impl]
       IN  IF fsm[s] # "recv"
           THEN /\ Raise
                /\ UNCHANGED <<str, parts, fsm, inbox, requests>>
           ELSE /\ inbox[s] # <<>>
                /\ str' = Head(inbox[s])
                /\ parts' = Split(Head(inbox[s]))
                /\ inbox' = [inbox EXCEPT ![s] = Tail(@)]
                /\ fsm' = [fsm EXCEPT ![s] = "send"]
                /\ requests' = Append(requests, [sock |-> s, msg |-> Head(inbox[s])])
                /\ pc' = "decode"
                /\ UNCHANGED exitCode
    /\ UNCHANGED <<cur, port, socket, taken, bound, bindError, impl, poller, events,
                   ret, client, replies, upcalls>>

\* if (parts[0] == "GET"): ret = self.impl.get (parts[1])
HandleGet ==
    /\ pc = "decode"
    /\ Verb(parts) = GET
    /\ IF HasKey(parts)
       THEN /\ ret' = get(Key(parts))
            /\ upcalls' = Append(upcalls, [req |-> Len(requests), impl |-> impl,
                                           op |-> "get", args |-> <<Key(parts)>>,
                                           result |-> get(Key(parts))])
            /\ pc' = "send"
            /\ UNCHANGED exitCode
       ELSE /\ Raise
            /\ UNCHANGED <<ret, upcalls>>
    /\ UNCHANGED <<cur, port, socket, taken, bound, bindError, impl, poller, events,
                   str, parts, fsm, inbox, client, requests, replies>>

\* elif (parts[0] == "PUT"): self.impl.put (parts[1], parts[2]), then "ack"
HandlePut ==
    /\ pc = "decode"
    /\ Verb(parts) # GET
    /\ Verb(parts) = PUT
    /\ IF HasKey(parts) /\ HasValue(parts)
       THEN /\ ret' = PutReply(put(Key(parts), Value(parts)))
            /\ upcalls' = Append(upcalls, [req |-> Len(requests), impl |-> impl,
                                           op |-> "put", args |-> <<Key(parts), Value(parts)>>,
                                           result |-> put(Key(parts), Value(parts))])
            /\ pc' = "send"
            /\ UNCHANGED exitCode
       ELSE /\ Raise
            /\ UNCHANGED <<ret, upcalls>>
    /\ UNCHANGED <<cur, port, socket, taken, bound, bindError, impl, poller, events,
                   str, parts, fsm, inbox, client, requests, replies>>

\* a bug: the else branch sends nothing
HandleUnknown_NoReply ==
    /\ pc = "decode"
    /\ Verb(parts) # GET
    /\ Verb(parts) # PUT
    /\ pc' = "wait"
    /\ UNCHANGED <<cur, port, socket, taken, bound, bindError, exitCode, impl, poller,
                   events, str, parts, ret, fsm, inbox, client, requests, replies, upcalls>>

\* else: "Sorry, unrecognized command"
HandleUnknown ==
    /\ pc = "decode"
    /\ Verb(parts) # GET
    /\ Verb(parts) # PUT
    /\ ret' = Unrecognized
    /\ pc' = "send"
    /\ UNCHANGED <<cur, port, socket, taken, bound, bindError, exitCode, impl, poller,
                   events, str, parts, fsm, inbox, client, requests, replies, upcalls>>

\* socket.send_string (...), the last statement of every branch; handle_message
\* returns and the loop waits for the next event
Send ==
    /\ pc = "send"
    /\ LET s == socket[impl]
       IN  IF fsm[s] # "send"
           THEN /\ Raise
                /\ UNCHANGED <<fsm, client, replies>>
           ELSE /\ replies' = Append(replies, [sock |-> s, msg |-> ret])
                /\ fsm' = [fsm EXCEPT ![s] = "recv"]
                /\ client' = [client EXCEPT ![s] = "idle"]
                /\ pc' = "wait"
                /\ UNCHANGED exitCode
    /\ UNCHANGED <<cur, port, socket, taken, bound, bindError, impl, poller, events,
                   str, parts, ret, inbox, requests, upcalls>>

-----------------------------------------------------------------------------
(* The peers *)

\* the requests the peers have sent so far
Sent == Len(requests) + Len(inbox["s1"]) + Len(inbox["s2"])

\* the peer of a bound socket sends one request and waits for its reply
ClientSend ==
    /\ exitCode = None
    /\ Sent < MaxRequests
    /\ \E s \in Sockets, m \in Messages :
          /\ bound[s] # <<>>
          /\ client[s] = "idle"
          /\ inbox' = [inbox EXCEPT ![s] = Append(@, m)]
          /\ client' = [client EXCEPT ![s] = "waiting"]
    /\ UNCHANGED <<pc, cur, port, socket, taken, bound, bindError, exitCode, impl,
                   poller, events, str, parts, ret, fsm, requests, replies, upcalls>>

-----------------------------------------------------------------------------
(* main, as written: one ServerImpl *)

Next ==
    \/ Bind
    \/ Register
    \/ StartEventLoop
    \/ Poll
    \/ Dispatch
    \/ Recv
    \/ HandleGet
    \/ HandlePut
    \/ HandleUnknown
    \/ Send
    \/ ClientSend

Spec == Init /\ [][Next]_vars

(* a caller that registers two ServerImpl objects with the Reactor *)

NextTwo ==
    \/ Next
    \/ SecondImpl

SpecTwo == Init /\ [][NextTwo]_vars

-----------------------------------------------------------------------------
(* The vocabulary of the properties: a request is read as text, character   *)
(* by character, not through the tokens handle_message computed.            *)

Spaces(m) == {i \in 1..Len(m) : m[i] = " "}
Least(S) == CHOOSE x \in S : \A y \in S : x <= y
FirstToken(m) == IF Spaces(m) = {} THEN m ELSE SubSeq(m, 1, Least(Spaces(m)) - 1)
TokenCount(m) == Cardinality(Spaces(m)) + 1

\* "GET <key>": the verb, one space, a key that is not empty and has no space
WellFormedGet(m) ==
    /\ Len(m) > 4
    /\ SubSeq(m, 1, 4) = <<"G", "E", "T", " ">>
    /\ Spaces(m) = {4}
KeyText(m) == SubSeq(m, 5, Len(m))

\* "PUT <key> <value>": key and value not empty and without spaces
WellFormedPut(m) ==
    /\ Len(m) > 6
    /\ SubSeq(m, 1, 4) = <<"P", "U", "T", " ">>
    /\ \E j \in 6..(Len(m) - 1) : Spaces(m) = {4, j}

IsGetOrPut(m) == FirstToken(m) \in {<<"G", "E", "T">>, <<"P", "U", "T">>}

\* a GET without a key, a PUT without a key or without a value
MissingTokens(m) ==
    \/ FirstToken(m) = <<"G", "E", "T">> /\ TokenCount(m) < 2
    \/ FirstToken(m) = <<"P", "U", "T">> /\ TokenCount(m) < 3

\* a GET that has not two tokens, a PUT that has not three
WrongTokenCount(m) ==
    \/ FirstToken(m) = <<"G", "E", "T">> /\ TokenCount(m) # 2
    \/ FirstToken(m) = <<"P", "U", "T">> /\ TokenCount(m) # 3

\* the places of the event loop: waiting for an event, and handling a request
Waiting == {"wait", "polled"}
Handling == {"recv", "decode", "send"}

-----------------------------------------------------------------------------
(* C1: requests and replies alternate strictly: the replies sent are as many *)
(* as the requests received, or one fewer while a request is being handled;  *)
(* when the dispatcher waits for, or is about to receive, a request every    *)
(* earlier request has its reply; a reply is sent only for a request that    *)
(* has none yet, on the socket the request came from; and no request has     *)
(* more than one upcall, so at most one handler operation is in flight.      *)
StrictAlternation ==
    /\ Len(requests) - Len(replies) \in {0, 1}
    /\ pc \in Waiting \cup {"recv"} => Len(replies) = Len(requests)
    /\ pc \in {"decode", "send"} => Len(requests) = Len(replies) + 1
    /\ \A i \in 1..Len(replies) : replies[i].sock = requests[i].sock
    /\ \A s \in Sockets :
          fsm[s] = "send" <=> /\ Len(requests) = Len(replies) + 1
                              /\ requests[Len(requests)].sock = s
    /\ \A u \in 1..Len(upcalls) : upcalls[u].req \in 1..Len(requests)
    /\ \A u, v \in 1..Len(upcalls) : u # v => upcalls[u].req # upcalls[v].req
    /\ Cardinality({u \in 1..Len(upcalls) : upcalls[u].req > Len(replies)}) <= 1

\* two requests were received and answered, one after the other
AlternationWitness ==
    /\ Len(replies) >= 2
    /\ Len(requests) = Len(replies)
    /\ Len(upcalls) >= 1
    /\ pc = "wait"

(* C2: a GET or PUT request that misses a required token does not end the   *)
(* process: after such a request was received the dispatcher is still in    *)
(* its loop.                                                                *)
MissingTokensDoNotCrash ==
    \A i \in 1..Len(requests) :
        MissingTokens(requests[i].msg) =>
            /\ exitCode = None
            /\ pc \in Waiting \cup Handling

(* C3: N requests give N replies in the same order: whenever the dispatcher *)
(* is not handling a request (it waits, or the process has ended), every    *)
(* request received has its reply, the i-th reply on the i-th request's     *)
(* socket.                                                                  *)
EveryRequestAnswered ==
    pc \notin Handling =>
        /\ Len(replies) = Len(requests)
        /\ \A i \in 1..Len(replies) : replies[i].sock = requests[i].sock

(* C4: the reply to a well-formed "GET <key>" is the key, character for      *)
(* character; such a request is never left unanswered by a fault; and the   *)
(* same GET sent again gets the same reply.                                 *)
GetEchoesKey ==
    /\ \A i \in 1..Len(requests) :
          WellFormedGet(requests[i].msg) =>
              IF i <= Len(replies)
              THEN replies[i].msg = KeyText(requests[i].msg)
              ELSE pc \in {"decode", "send"}
    /\ \A i, j \in 1..Len(replies) :
          WellFormedGet(requests[i].msg) /\ requests[i].msg = requests[j].msg
              => replies[i].msg = replies[j].msg

\* the same well-formed GET was answered twice
GetWitness ==
    \E i, j \in 1..Len(replies) :
        /\ i < j
        /\ WellFormedGet(requests[i].msg)
        /\ requests[i].msg = requests[j].msg

(* C5: the reply to a well-formed "PUT <key> <value>" is the literal "ack",  *)
(* whatever the key and the value are, and such a request is never left     *)
(* unanswered by a fault.                                                   *)
PutRepliesAck ==
    \A i \in 1..Len(requests) :
        WellFormedPut(requests[i].msg) =>
            IF i <= Len(replies)
            THEN replies[i].msg = <<"a", "c", "k">>
            ELSE pc \in {"decode", "send"}

\* two well-formed PUT requests that differ were answered
PutWitness ==
    \E i, j \in 1..Len(replies) :
        /\ WellFormedPut(requests[i].msg)
        /\ WellFormedPut(requests[j].msg)
        /\ requests[i].msg # requests[j].msg

(* C6: a request whose first token is neither "GET" nor "PUT" is answered   *)
(* with "Sorry, unrecognized command", makes no upcall, and leaves the      *)
(* dispatcher in its loop: once answered, the dispatcher waits again.       *)
UnknownVerbUnrecognized ==
    \A i \in 1..Len(requests) :
        ~IsGetOrPut(requests[i].msg) =>
            /\ \A u \in 1..Len(upcalls) : upcalls[u].req # i
            /\ IF i <= Len(replies)
               THEN replies[i].msg = Unrecognized
               ELSE pc \in {"decode", "send"}
            /\ i = Len(requests) => exitCode = None /\ pc \in Waiting \cup Handling

\* a request with an unknown first token was answered, and so was the next request
UnknownVerbWitness ==
    \E i \in 1..Len(replies) :
        /\ ~IsGetOrPut(requests[i].msg)
        /\ i < Len(replies)

(* C7: a GET that has not exactly two tokens, or a PUT that has not exactly *)
(* three, is answered with "Sorry, unrecognized command".                   *)
WrongTokenCountUnrecognized ==
    \A i \in 1..Len(replies) :
        WrongTokenCount(requests[i].msg) => replies[i].msg = Unrecognized

(* C8: the dispatcher has no terminal state: once it has received a request *)
(* it is waiting or handling, for ever.                                     *)
NoTerminalState ==
    requests # <<>> => pc \in Waiting \cup Handling

(* C9: when bind fails, main ends there with a non-zero exit status: no     *)
(* impl is registered, nothing is in the wait set, and no request is        *)
(* received or answered.                                                    *)
BindFailureFatal ==
    bindError =>
        /\ pc = "exited"
        /\ exitCode \notin {None, "0"}
        /\ impl = None
        /\ poller = {}
        /\ requests = <<>>
        /\ replies = <<>>
        /\ upcalls = <<>>

\* bind failed because the port was in use by another process
BindFailureWitness ==
    /\ bindError
    /\ port["h1"] \in taken
    /\ pc = "exited"

\* the second impl is registered with the reactor
TwoRegistered ==
    /\ cur = "h2"
    /\ pc \notin {"bind", "register"}
    /\ ~bindError

(* C10, as claimed: after register (h1) and register (h2) the impl and the  *)
(* wait set refer to h2's socket only.                                      *)
SecondReplacesFirst ==
    TwoRegistered =>
        /\ impl = "h2"
        /\ poller = {socket["h2"]}

(* C10, amended: after register (h1) and register (h2) the impl is h2, the  *)
(* wait set holds the sockets of both, every upcall goes to h2, requests    *)
(* are received from h2's socket only and answered there, and whenever the  *)
(* dispatcher waits with a request pending on h2's socket the poll reports  *)
(* that socket, whatever is pending on h1's socket.                         *)
SecondReplacesImplOnly ==
    TwoRegistered =>
        /\ impl = "h2"
        /\ poller = {socket["h1"], socket["h2"]}
        /\ socket["h1"] # socket["h2"]
        /\ \A u \in 1..Len(upcalls) : upcalls[u].impl = "h2"
        /\ \A i \in 1..Len(requests) : requests[i].sock = socket["h2"]
        /\ \A i \in 1..Len(replies) : replies[i].sock = socket["h2"]
        /\ pc = "wait" /\ inbox[socket["h2"]] # <<>> => socket["h2"] \in Readable
        /\ pc = "polled" /\ socket["h2"] \in events => inbox[socket["h2"]] # <<>>
        /\ pc = "recv" => inbox[socket["h2"]] # <<>>

\* with both registered, a request on h2's socket was answered by an upcall
\* on h2 while a request was pending on h1's socket
TwoRegisteredWitness ==
    /\ TwoRegistered
    /\ inbox[socket["h1"]] # <<>>
    /\ Len(replies) >= 1
    /\ Len(upcalls) >= 1

-----------------------------------------------------------------------------
\* the n-th token of a request, read from its text: what stands between the
\* (n-1)-th and the n-th space
Cuts(m) == Spaces(m) \cup {0, Len(m) + 1}
Cut(m, n) == CHOOSE x \in Cuts(m) : Cardinality({y \in Cuts(m) : y < x}) = n
Token(m, n) == SubSeq(m, Cut(m, n - 1) + 1, Cut(m, n) - 1)

\* the upcalls made for the i-th request
UpcallsOf(i) == {u \in 1..Len(upcalls) : upcalls[u].req = i}

(* C11: once handle_message is about to reply, or has replied, to a GET     *)
(* with a key, it has made exactly one upcall, get with the second token,   *)
(* and the reply is what get returned; to a PUT with key and value, it has  *)
(* made exactly one upcall, put with the second and third tokens, and the   *)
(* reply is "ack", not the "ACK" that put returned.                         *)
UpcallRouting ==
    \A i \in 1..Len(requests) :
        LET m == requests[i].msg
            replied == i <= Len(replies)
        IN  (replied \/ pc = "send") =>
              /\ FirstToken(m) = <<"G", "E", "T">> /\ TokenCount(m) >= 2 =>
                    /\ Cardinality(UpcallsOf(i)) = 1
                    /\ \A u \in UpcallsOf(i) :
                          /\ upcalls[u].op = "get"
                          /\ upcalls[u].args = <<Token(m, 2)>>
                          /\ upcalls[u].impl = impl
                          /\ replied => replies[i].msg = upcalls[u].result
              /\ FirstToken(m) = <<"P", "U", "T">> /\ TokenCount(m) >= 3 =>
                    /\ Cardinality(UpcallsOf(i)) = 1
                    /\ \A u \in UpcallsOf(i) :
                          /\ upcalls[u].op = "put"
                          /\ upcalls[u].args = <<Token(m, 2), Token(m, 3)>>
                          /\ upcalls[u].impl = impl
                          /\ upcalls[u].result = <<"A", "C", "K">>
                          /\ replied => replies[i].msg = <<"a", "c", "k">>

\* a GET and a PUT whose key and value differ were both answered, each after
\* its one upcall
RoutingWitness ==
    /\ \E i, j \in 1..Len(replies) :
          /\ WellFormedGet(requests[i].msg)
          /\ WellFormedPut(requests[j].msg)
          /\ Token(requests[j].msg, 2) # Token(requests[j].msg, 3)
    /\ Len(upcalls) = Len(replies)

(* C12: the handler's operations are pure: a step that makes an upcall      *)
(* returns the key for get and "ACK" for put, and changes neither an        *)
(* impl's port or socket, nor what the socket is bound to, its state or its *)
(* queue, nor the reactor's impl and wait set, nor the requests received    *)
(* and the replies sent.                                                    *)
HandlerOpsPure ==
    [][Len(upcalls') > Len(upcalls) =>
          /\ Len(upcalls') = Len(upcalls) + 1
          /\ SubSeq(upcalls', 1, Len(upcalls)) = upcalls
          /\ LET u == upcalls'[Len(upcalls')]
             IN  /\ u.op = "get" => Len(u.args) = 1 /\ u.result = u.args[1]
                 /\ u.op = "put" => Len(u.args) = 2 /\ u.result = <<"A", "C", "K">>
          /\ port' = port
          /\ socket' = socket
          /\ bound' = bound
          /\ fsm' = fsm
          /\ inbox' = inbox
          /\ impl' = impl
          /\ poller' = poller
          /\ events' = events
          /\ requests' = requests
          /\ replies' = replies
          /\ exitCode' = exitCode]_vars

\* both operations were called, put with a key and a value that differ
PureWitness ==
    \E u, v \in 1..Len(upcalls) :
        /\ upcalls[u].op = "get"
        /\ upcalls[v].op = "put"
        /\ upcalls[v].args[1] # upcalls[v].args[2]

\* the reply the text of a request alone determines
ReplyOfText(m) ==
    IF FirstToken(m) = <<"G", "E", "T">> THEN Token(m, 2)
    ELSE IF FirstToken(m) = <<"P", "U", "T">> THEN <<"a", "c", "k">>
    ELSE Unrecognized

(* C13: replies do not depend on the history: in every run and at every     *)
(* place of it, the reply sent to a request is the one its text alone       *)
(* determines, so the same request gets the same reply after any earlier    *)
(* requests; in particular "GET k" after "PUT k v" is answered with k.      *)
RepliesHistoryIndependent ==
    /\ \A i \in 1..Len(replies) : replies[i].msg = ReplyOfText(requests[i].msg)
    /\ \A i, j \in 1..Len(replies) :
          requests[i].msg = requests[j].msg => replies[i].msg = replies[j].msg
    /\ \A i, j \in 1..Len(replies) :
          /\ i < j
          /\ WellFormedPut(requests[i].msg)
          /\ WellFormedGet(requests[j].msg)
          /\ Token(requests[i].msg, 2) = KeyText(requests[j].msg)
          => replies[j].msg = KeyText(requests[j].msg)

\* "GET k" was answered after "PUT k v", v not being k
HistoryWitness ==
    \E i, j \in 1..Len(replies) :
        /\ i < j
        /\ WellFormedPut(requests[i].msg)
        /\ WellFormedGet(requests[j].msg)
        /\ Token(requests[i].msg, 2) = KeyText(requests[j].msg)
        /\ Token(requests[i].msg, 3) # KeyText(requests[j].msg)

\* poll has returned, and not with the socket of the current impl
ForeignEvent ==
    /\ pc = "polled"
    /\ events # {}
    /\ socket[impl] \notin events

(* C14: when poll reports only sockets that are not the current impl's, the *)
(* event loop goes back to waiting: its next step receives nothing, sends   *)
(* nothing and makes no upcall (the queues only grow by what peers send,    *)
(* and no socket changes state); and whenever a request is received, it is  *)
(* taken from the current impl's socket, which poll had reported.           *)
ForeignEventIgnored ==
    [][/\ ForeignEvent =>
            /\ pc' \in {"polled", "wait"}
            /\ requests' = requests
            /\ replies' = replies
            /\ upcalls' = upcalls
            /\ fsm' = fsm
            /\ \A s \in Sockets :
                  /\ Len(inbox'[s]) >= Len(inbox[s])
                  /\ SubSeq(inbox'[s], 1, Len(inbox[s])) = inbox[s]
       /\ Len(requests') > Len(requests) =>
            /\ pc = "recv"
            /\ socket[impl] \in events
            /\ requests'[Len(requests')].sock = socket[impl]
            /\ requests'[Len(requests')].msg = Head(inbox[socket[impl]])
            /\ \A s \in Sockets \ {socket[impl]} : inbox'[s] = inbox[s]]_vars

\* the event was ignored: the loop waits again, the request still pending on
\* the socket of the impl that was replaced, and nothing received so far
ForeignEventWitness ==
    /\ pc = "wait"
    /\ impl = "h2"
    /\ events = {socket["h1"]}
    /\ inbox[socket["h1"]] # <<>>
    /\ requests = <<>>

=============================================================================
